---- MODULE Spec2Model ----
(***************************************************************************)
(* Model of the NiuTrans translation plugin: src/src/niutrans.py (the      *)
(* request signer generate_auth_str, verify, the translate_text generator) *)
(* and src/provider/niutrans.py (_validate_credentials).                   *)
(*                                                                         *)
(* Python str values are sequences of Unicode codepoints, so that string   *)
(* comparison (the sort key), "&".join, f-string formatting and UTF-8      *)
(* encoding are computed rather than assumed.  Python values that may be   *)
(* None, an int or a str are tagged records.                               *)
(***************************************************************************)
EXTENDS Integers, Sequences, FiniteSets, TLC

VARIABLES
    credentials,  \* NiuTransPlugin.credentials: [app_id, apikey]
    now,          \* what int(time.time()) returns
    op,           \* the entry point last invoked ("none" before any)
    input,        \* the arguments of that invocation
    pc,           \* where that invocation stands
    frame,        \* the translate_text generator's suspended local translated_text
    emitted,      \* the items the translate_text generator has yielded
    raised,       \* the exception the invocation ended with (NoExc: none)
    wire,         \* the form bodies handed to httpx.post by the invocation
    response,     \* what the remote exchange of the invocation produced
    params,       \* signer specification: the dict passed to generate_auth_str
    calls         \* signer specification: the generate_auth_str calls made

vars == <<credentials, now, op, input, pc, frame, emitted, raised, wire,
          response, params, calls>>

-----------------------------------------------------------------------------
(* Bounds of the model *)

\* the first value of the clock, one second before a digit roll-over
StartTime == 1699999999
\* how many seconds the clock may advance
MaxTicks == 1
\* how many generate_auth_str calls the signer specification logs
MaxSigns == 2

-----------------------------------------------------------------------------
(* Python values *)

None == [t |-> "None"]
Absent == [t |-> "absent"]          \* a key that a dict / JSON object lacks
PyStr(s) == [t |-> "str", v |-> s]
PyInt(n) == [t |-> "int", v |-> n]

\* string literals of the source, as codepoints
K_from == <<102, 114, 111, 109>>                                \* "from"
K_to == <<116, 111>>                                            \* "to"
K_srcText == <<115, 114, 99, 84, 101, 120, 116>>                \* "srcText"
K_appId == <<97, 112, 112, 73, 100>>                            \* "appId"
K_timestamp == <<116, 105, 109, 101, 115, 116, 97, 109, 112>>   \* "timestamp"
K_authStr == <<97, 117, 116, 104, 83, 116, 114>>                \* "authStr"
K_apikey == <<97, 112, 105, 107, 101, 121>>                     \* "apikey"
S_en == <<101, 110>>                                            \* "en"
S_zh == <<122, 104>>                                            \* "zh"
S_testing == <<116, 101, 115, 116, 105, 110, 103>>              \* "testing"
S_auto == <<97, 117, 116, 111>>                                 \* "auto"
S_None == <<78, 111, 110, 101>>                                 \* "None"
S_eq == <<61>>                                                  \* "="
S_amp == <<38>>                                                 \* "&"
\* "Credential verification failed: "
S_VerifyPrefix == <<67, 114, 101, 100, 101, 110, 116, 105, 97, 108, 32, 118,
                    101, 114, 105, 102, 105, 99, 97, 116, 105, 111, 110, 32,
                    102, 97, 105, 108, 101, 100, 58, 32>>
\* "Translation request failed: "
S_TranslatePrefix == <<84, 114, 97, 110, 115, 108, 97, 116, 105, 111, 110, 32,
                       114, 101, 113, 117, 101, 115, 116, 32, 102, 97, 105,
                       108, 101, 100, 58, 32>>
\* "Translation failed: "
S_TranslationFailed == <<84, 114, 97, 110, 115, 108, 97, 116, 105, 111, 110,
                         32, 102, 97, 105, 108, 101, 100, 58, 32>>
\* "Error code: "
S_ErrorCode == <<69, 114, 114, 111, 114, 32, 99, 111, 100, 101, 58, 32>>
\* ", message: "
S_Message == <<44, 32, 109, 101, 115, 115, 97, 103, 101, 58, 32>>

\* str(n) for an int n >= 0: its decimal digits
RECURSIVE IntToStr(_)
IntToStr(n) ==
    IF n < 10 THEN <<48 + n>>
    ELSE IntToStr(n \div 10) \o <<48 + (n % 10)>>

\* format(value, ""), what an f-string field "{value}" renders
FormatValue(value) ==
    CASE value.t = "str" -> value.v
      [] value.t = "int" -> IntToStr(value.v)
      [] value.t = "None" -> S_None

\* a < b for Python str: codepoint-wise, a proper prefix being smaller
RECURSIVE StrLess(_, _)
StrLess(a, b) ==
    IF b = <<>> THEN FALSE
    ELSE IF a = <<>> THEN TRUE
    ELSE IF Head(a) # Head(b) THEN Head(a) < Head(b)
    ELSE StrLess(Tail(a), Tail(b))

\* str.encode("utf-8") of one codepoint; <<>> marks a lone surrogate, which
\* the codec refuses (UnicodeEncodeError)
Utf8OfChar(c) ==
    IF c < 128 THEN <<c>>
    ELSE IF c < 2048 THEN <<192 + (c \div 64), 128 + (c % 64)>>
    ELSE IF c >= 55296 /\ c <= 57343 THEN <<>>
    ELSE IF c < 65536
         THEN <<224 + (c \div 4096), 128 + ((c \div 64) % 64), 128 + (c % 64)>>
    ELSE <<240 + (c \div 262144), 128 + ((c \div 4096) % 64),
           128 + ((c \div 64) % 64), 128 + (c % 64)>>

Encodable(s) == \A i \in 1..Len(s) : Utf8OfChar(s[i]) # <<>>

RECURSIVE Utf8(_)
Utf8(s) == IF s = <<>> THEN <<>> ELSE Utf8OfChar(Head(s)) \o Utf8(Tail(s))

-----------------------------------------------------------------------------
(* Exceptions *)

\* an exception: its class, str(e), and the exception being handled when it
\* was raised (__context__), NoExc when there is none
NoExc == [cls |-> "", msg |-> <<>>]
Exc(cls, msg) == [cls |-> cls, msg |-> msg, context |-> NoExc]
ExcFrom(cls, msg, e) == [cls |-> cls, msg |-> msg, context |-> e]

\* str(e) of the exceptions raised by the libraries; the wording is the
\* library's, a short text stands for it here
M_Encode == <<115, 117, 114, 114, 111, 103, 97, 116, 101>>     \* "surrogate"
M_Timeout == <<116, 105, 109, 101, 100, 32, 111, 117, 116>>    \* "timed out"
M_Json == <<98, 97, 100, 32, 106, 115, 111, 110>>              \* "bad json"
M_Type == <<110, 111, 116, 32, 97, 32, 109, 97, 112>>          \* "not a map"
M_Validation == <<102, 114, 111, 109, 32, 109, 105, 115, 115, 105, 110, 103>> \* "from missing"
M_Status == <<72, 84, 84, 80, 32>>                             \* "HTTP "

-----------------------------------------------------------------------------
(* NiuTransPlugin.generate_auth_str *)

\* InsertByKey comparing the wrong way round: a descending sort
RECURSIVE InsertByKey_Desc(_, _)
InsertByKey_Desc(pair, acc) ==
    IF acc = <<>> THEN <<pair>>
    ELSE IF StrLess(Head(acc)[1], pair[1]) THEN <<pair>> \o acc
    ELSE <<Head(acc)>> \o InsertByKey_Desc(pair, Tail(acc))

\* one step of the stable sort: pair goes behind every entry whose key is
\* not greater than its own
RECURSIVE InsertByKey(_, _)
InsertByKey(pair, acc) ==
    IF acc = <<>> THEN <<pair>>
    ELSE IF StrLess(pair[1], Head(acc)[1]) THEN <<pair>> \o acc
    ELSE <<Head(acc)>> \o InsertByKey(pair, Tail(acc))

\* sorted(items, key=lambda x: x[0]): stable, by key only
RECURSIVE SortedByKey(_)
SortedByKey(items) ==
    IF items = <<>> THEN <<>>
    ELSE InsertByKey(items[Len(items)], SortedByKey(SubSeq(items, 1, Len(items) - 1)))

\* the list handed to sorted(): the dict's items plus the apikey pair
UnsortedItems(p, apikey) == p \o << <<K_apikey, PyStr(apikey)>> >>

\* sorted_params without the sort: the items in insertion order
sorted_params_Unsorted(p, apikey) == UnsortedItems(p, apikey)

sorted_params(p, apikey) == SortedByKey(UnsortedItems(p, apikey))

\* f"{key}={value}"
Segment(pair) == pair[1] \o S_eq \o FormatValue(pair[2])

\* "&".join(segments)
RECURSIVE JoinAmp(_)
JoinAmp(segs) ==
    IF segs = <<>> THEN <<>>
    ELSE IF Len(segs) = 1 THEN segs[1]
    ELSE segs[1] \o S_amp \o JoinAmp(Tail(segs))

param_str(sp) == JoinAmp([i \in 1..Len(sp) |-> Segment(sp[i])])

\* hashlib.md5(data).hexdigest(): the digest is not computed; it is the
\* 32-digit string determined by the bytes hashed, kept as those bytes
Md5Hex(bytes) == [t |-> "md5hex", of |-> bytes]

\* the call: its locals, its return value auth_str or the exception, and the
\* dict params as the call leaves it (sorted() builds a new list)
generate_auth_str(p, apikey) ==
    LET sp == sorted_params(p, apikey)
        ps == param_str(sp)
    IN  IF Encodable(ps)
        THEN [params |-> p, sorted_params |-> sp, param_str |-> ps,
              auth_str |-> Md5Hex(Utf8(ps)), raised |-> NoExc]
        ELSE [params |-> p, sorted_params |-> sp, param_str |-> ps,
              auth_str |-> None, raised |-> Exc("UnicodeEncodeError", M_Encode)]

-----------------------------------------------------------------------------
(* The remote exchange: httpx.post, raise_for_status, json, TransResponse *)

NoResponse == [kind |-> "none"]

\* is_success of httpx: a 2xx status
IsSuccess(status) == status >= 200 /\ status <= 299

\* TransResponse(**obj) for a JSON object: from is required (it may be null),
\* the other fields default to ""
FieldOrDefault(fields, name) ==
    IF fields[name] = Absent THEN PyStr(<<>>) ELSE fields[name]

TransResponse(fields) ==
    [from_ |-> fields.from,
     to |-> FieldOrDefault(fields, "to"),
     tgtText |-> FieldOrDefault(fields, "tgtText"),
     srcText |-> FieldOrDefault(fields, "srcText"),
     errorCode |-> FieldOrDefault(fields, "errorCode"),
     errorMsg |-> FieldOrDefault(fields, "errorMsg")]

\* response = httpx.post(...); response.raise_for_status();
\* result = TransResponse(**response.json())
Receive(resp) ==
    IF resp.kind = "transport_error"
    THEN [raised |-> Exc("TransportError", resp.msg), result |-> None]
    ELSE IF ~IsSuccess(resp.status)
    THEN [raised |-> Exc("HTTPStatusError", M_Status \o IntToStr(resp.status)),
          result |-> None]
    ELSE IF resp.body.json = "invalid"
    THEN [raised |-> Exc("JSONDecodeError", M_Json), result |-> None]
    ELSE IF resp.body.json # "object"
    THEN [raised |-> Exc("TypeError", M_Type), result |-> None]
    ELSE IF resp.body.fields.from = Absent
    THEN [raised |-> Exc("ValidationError", M_Validation), result |-> None]
    ELSE [raised |-> NoExc, result |-> TransResponse(resp.body.fields)]

-----------------------------------------------------------------------------
(* NiuTransPlugin.verify *)

\* the dict literal of verify, in insertion order
VerifyData(creds, t) ==
    << <<K_from, PyStr(S_en)>>, <<K_to, PyStr(S_zh)>>,
       <<K_srcText, PyStr(S_testing)>>, <<K_appId, PyStr(creds.app_id)>>,
       <<K_timestamp, PyInt(t)>> >>

\* the exception raised inside verify's try block, NoExc when it runs through
VerifyInner(sig, rcv) ==
    IF sig.raised # NoExc THEN sig.raised
    ELSE IF rcv.raised # NoExc THEN rcv.raised
    ELSE IF rcv.result.errorCode # PyStr(<<>>)
    THEN Exc("Exception",
             S_ErrorCode \o FormatValue(rcv.result.errorCode)
               \o S_Message \o FormatValue(rcv.result.errorMsg))
    ELSE NoExc

\* VerifyWrap re-raising the exception as it caught it
VerifyWrap_Reraise(e) == e

\* except Exception as e: raise Exception(f"Credential verification failed: {str(e)}")
VerifyWrap(e) ==
    IF e = NoExc THEN NoExc
    ELSE ExcFrom("Exception", S_VerifyPrefix \o e.msg, e)

\* verify signing the dict before appId and timestamp are put into it
verify_SignsEarly(creds, t, resp) ==
    LET data == VerifyData(creds, t)
        sig == generate_auth_str(SubSeq(data, 1, 3), creds.apikey)
        sent == sig.raised = NoExc
        rcv == IF sent THEN Receive(resp) ELSE [raised |-> NoExc, result |-> None]
    IN  [wire |-> IF sent THEN <<Append(data, <<K_authStr, sig.auth_str>>)>> ELSE <<>>,
         response |-> IF sent THEN resp ELSE NoResponse,
         raised |-> VerifyWrap(VerifyInner(sig, rcv))]

\* one call of verify with the plugin holding creds, the clock at t and the
\* remote exchange producing resp: the body posted (if any) and the outcome
verify(creds, t, resp) ==
    LET data == VerifyData(creds, t)
        sig == generate_auth_str(data, creds.apikey)
        sent == sig.raised = NoExc
        rcv == IF sent THEN Receive(resp) ELSE [raised |-> NoExc, result |-> None]
    IN  [wire |-> IF sent THEN <<Append(data, <<K_authStr, sig.auth_str>>)>> ELSE <<>>,
         response |-> IF sent THEN resp ELSE NoResponse,
         raised |-> VerifyWrap(VerifyInner(sig, rcv))]

-----------------------------------------------------------------------------
(* NiuTransPlugin.translate_text *)

\* from_language or "auto"
SourceLanguage(from_language) ==
    IF from_language = <<>> THEN S_auto ELSE from_language

\* TranslateData posting the display value of the source language
TranslateData_Auto(creds, t, a) ==
    << <<K_from, PyStr(SourceLanguage(a.from_language))>>,
       <<K_to, PyStr(a.to_language)>>,
       <<K_appId, PyStr(creds.app_id)>>, <<K_timestamp, PyInt(t)>>,
       <<K_srcText, PyStr(a.text)>> >>

\* the dict literal of translate_text, in insertion order
TranslateData(creds, t, a) ==
    << <<K_from, PyStr(a.from_language)>>, <<K_to, PyStr(a.to_language)>>,
       <<K_appId, PyStr(creds.app_id)>>, <<K_timestamp, PyInt(t)>>,
       <<K_srcText, PyStr(a.text)>> >>

\* TranslateInner without the errorCode check
TranslateInner_IgnoreErrorCode(rcv) == rcv.raised

\* the exception raised inside translate_text's try block before the first
\* yield, NoExc when the first yield is reached
TranslateInner(rcv) ==
    IF rcv.raised # NoExc THEN rcv.raised
    ELSE IF rcv.result.errorCode # PyStr(<<>>)
    THEN Exc("Exception", S_TranslationFailed \o FormatValue(rcv.result.errorMsg))
    ELSE NoExc

\* TranslateWrap dropping str(e)
TranslateWrap_NoCause(e) ==
    IF e = NoExc THEN NoExc
    ELSE ExcFrom("Exception", S_TranslatePrefix, e)

\* except Exception as e: raise Exception(f"Translation request failed: {str(e)}")
TranslateWrap(e) ==
    IF e = NoExc THEN NoExc
    ELSE ExcFrom("Exception", S_TranslatePrefix \o e.msg, e)

\* the first yield handing out the bare text instead of the dict
ResultRecord_Bare(a, result) == result.tgtText

\* the dict of the first yield
ResultRecord(a, result) ==
    [t |-> "dict",
     v |-> [translated_text |-> result.tgtText,
            source_language |-> PyStr(SourceLanguage(a.from_language)),
            target_language |-> PyStr(a.to_language),
            original_text |-> PyStr(a.text),
            error_code |-> result.errorCode,
            error_msg |-> result.errorMsg]]

\* translate_text yielding the record before it looks at errorCode
translate_text_YieldFirst(creds, t, a, resp) ==
    LET data == TranslateData(creds, t, a)
        sig == generate_auth_str(data, creds.apikey)
        sent == sig.raised = NoExc
        rcv == IF sent THEN Receive(resp) ELSE [raised |-> NoExc, result |-> None]
        inner == TranslateInner(rcv)
        parsed == sent /\ rcv.raised = NoExc
    IN  [wire |-> IF sent THEN <<Append(data, <<K_authStr, sig.auth_str>>)>> ELSE <<>>,
         response |-> IF sent THEN resp ELSE NoResponse,
         raised |-> IF sent THEN TranslateWrap(inner) ELSE sig.raised,
         yielded |-> IF parsed THEN <<ResultRecord(a, rcv.result)>> ELSE <<>>,
         translated_text |-> IF parsed THEN rcv.result.tgtText ELSE None]

\* the generator's run from its start to the first yield or to the exception
\* that ends it
translate_text(creds, t, a, resp) ==
    LET data == TranslateData(creds, t, a)
        sig == generate_auth_str(data, creds.apikey)
        sent == sig.raised = NoExc
        rcv == IF sent THEN Receive(resp) ELSE [raised |-> NoExc, result |-> None]
        inner == TranslateInner(rcv)
        ok == sent /\ inner = NoExc
    IN  [wire |-> IF sent THEN <<Append(data, <<K_authStr, sig.auth_str>>)>> ELSE <<>>,
         response |-> IF sent THEN resp ELSE NoResponse,
         raised |-> IF sent THEN TranslateWrap(inner) ELSE sig.raised,
         yielded |-> IF ok THEN <<ResultRecord(a, rcv.result)>> ELSE <<>>,
         translated_text |-> IF ok THEN rcv.result.tgtText ELSE None]

-----------------------------------------------------------------------------
(* DifyPluginPdmTemplateProvider._validate_credentials *)

\* "credentials" stands for the message of pydantic's error on the dict
M_Credentials == <<99, 114, 101, 100, 101, 110, 116, 105, 97, 108, 115>>

\* NiuTransCredentials(**credentials): both fields are str with default ""
CredentialsValid(d) == d.app_id # None /\ d.apikey # None

NiuTransCredentials(d) ==
    [app_id |-> IF d.app_id = Absent THEN <<>> ELSE d.app_id.v,
     apikey |-> IF d.apikey = Absent THEN <<>> ELSE d.apikey.v]

\* except Exception as e: raise ToolProviderCredentialValidationError(str(e))
ProviderWrap(e) ==
    IF e = NoExc THEN NoExc
    ELSE ExcFrom("ToolProviderCredentialValidationError", e.msg, e)

validate_credentials(d, t, resp) ==
    IF ~CredentialsValid(d)
    THEN [wire |-> <<>>, response |-> NoResponse,
          raised |-> ProviderWrap(Exc("ValidationError", M_Credentials))]
    ELSE LET v == verify(NiuTransCredentials(d), t, resp)
         IN  [wire |-> v.wire, response |-> v.response,
              raised |-> ProviderWrap(v.raised)]

-----------------------------------------------------------------------------
(* The values the model draws its inputs from *)

S_a1 == <<97, 49>>                       \* "a1"
S_k1 == <<107, 49>>                      \* "k1"
S_amp_text == <<97, 38, 98>>             \* "a&b"
S_ni == <<20320>>                        \* U+4F60
S_surrogate == <<55296>>                 \* a lone surrogate, U+D800
S_nihao == <<20320, 22909>>              \* U+4F60 U+597D
S_10001 == <<49, 48, 48, 48, 49>>        \* "10001"
S_invalid_appid == <<105, 110, 118, 97, 108, 105, 100, 32, 97, 112, 112,
                     105, 100>>          \* "invalid appid"

\* held credentials; both fields default to "" (NiuTransCredentials())
CredentialValues == [app_id : {<<>>, S_a1}, apikey : {<<>>, S_k1}]

\* the dict the host hands to _validate_credentials
CredentialDicts ==
    [app_id : {Absent, None, PyStr(S_a1)}, apikey : {Absent, None, PyStr(S_k1)}]

Texts == {<<>>, S_amp_text, S_ni, S_surrogate}
FromLanguages == {<<>>, S_en}
ToLanguages == {<<>>, S_en}
Arguments == [text : Texts, from_language : FromLanguages, to_language : ToLanguages]
NoInput == [text |-> <<>>, from_language |-> <<>>, to_language |-> <<>>]

Statuses == {200, 500}
Bodies ==
    {[json |-> "invalid"], [json |-> "array"]}
    \cup {[json |-> "object", fields |-> f] :
            f \in [from : {Absent, PyStr(S_en)},
                   to : {Absent},
                   tgtText : {Absent, None, PyStr(S_nihao)},
                   srcText : {Absent},
                   errorCode : {Absent, None, PyStr(<<>>), PyStr(S_10001)},
                   errorMsg : {Absent, None, PyStr(S_invalid_appid)}]}
Responses ==
    {[kind |-> "transport_error", msg |-> M_Timeout]}
    \cup {[kind |-> "response", status |-> st, body |-> b] :
            st \in Statuses, b \in Bodies}

-----------------------------------------------------------------------------
(* The plugin as a state machine *)

Init ==
    /\ credentials \in CredentialValues
    /\ now = StartTime
    /\ op = "none"
    /\ input = NoInput
    /\ pc = "idle"
    /\ frame = None
    /\ emitted = <<>>
    /\ raised = NoExc
    /\ wire = <<>>
    /\ response = NoResponse
    /\ params = <<>>
    /\ calls = <<>>

\* time passes
Tick ==
    /\ now < StartTime + MaxTicks
    /\ now' = now + 1
    /\ UNCHANGED <<credentials, op, input, pc, frame, emitted, raised, wire,
                   response, params, calls>>

\* the host calls plugin.verify()
Verify ==
    /\ pc = "idle"
    /\ \E resp \in Responses :
        \E r \in {verify(credentials, now, resp)} :
            /\ op' = "verify"
            /\ input' = NoInput
            /\ pc' = IF r.raised = NoExc THEN "returned" ELSE "raised"
            /\ frame' = None
            /\ emitted' = <<>>
            /\ raised' = r.raised
            /\ wire' = r.wire
            /\ response' = r.response
            /\ UNCHANGED <<credentials, now, params, calls>>

\* the host calls the provider's _validate_credentials(credentials)
ValidateCredentials ==
    /\ pc = "idle"
    /\ \E d \in CredentialDicts, resp \in Responses :
        \E r \in {validate_credentials(d, now, resp)} :
            /\ op' = "_validate_credentials"
            /\ input' = d
            /\ pc' = IF r.raised = NoExc THEN "returned" ELSE "raised"
            /\ frame' = None
            /\ emitted' = <<>>
            /\ raised' = r.raised
            /\ wire' = r.wire
            /\ response' = r.response
            /\ UNCHANGED <<credentials, now, params, calls>>

\* the host calls translate_text(text, from_language, to_language): a
\* generator is created, none of its body has run
CallTranslateText ==
    /\ pc = "idle"
    /\ \E a \in Arguments :
        /\ op' = "translate_text"
        /\ input' = a
        /\ pc' = "created"
        /\ frame' = None
        /\ emitted' = <<>>
        /\ raised' = NoExc
        /\ wire' = <<>>
        /\ response' = NoResponse
        /\ UNCHANGED <<credentials, now, params, calls>>

\* first next(): the body runs to the first yield, or raises
GenStart ==
    /\ op = "translate_text"
    /\ pc = "created"
    /\ \E resp \in Responses :
        \E r \in {translate_text(credentials, now, input, resp)} :
            /\ pc' = IF r.raised = NoExc THEN "yield1" ELSE "raised"
            /\ frame' = r.translated_text
            /\ emitted' = r.yielded
            /\ raised' = r.raised
            /\ wire' = r.wire
            /\ response' = r.response
    /\ UNCHANGED <<credentials, now, op, input, params, calls>>

\* second next(): yield translated_text
GenSecond ==
    /\ op = "translate_text"
    /\ pc = "yield1"
    /\ pc' = "yield2"
    /\ emitted' = Append(emitted, frame)
    /\ UNCHANGED <<credentials, now, op, input, frame, raised, wire, response,
                   params, calls>>

\* third next(): the body falls off its end, StopIteration
GenFinish ==
    /\ op = "translate_text"
    /\ pc = "yield2"
    /\ pc' = "returned"
    /\ UNCHANGED <<credentials, now, op, input, frame, emitted, raised, wire,
                   response, params, calls>>

\* the consumer drops the generator before it is exhausted: GeneratorExit at
\* the yield is no Exception, the except clause lets it through
GenClose ==
    /\ op = "translate_text"
    /\ pc \in {"created", "yield1", "yield2"}
    /\ pc' = "closed"
    /\ UNCHANGED <<credentials, now, op, input, frame, emitted, raised, wire,
                   response, params, calls>>

\* the host is done with the invocation's outcome; each invocation is a
\* single synchronous call, the next one starts afresh
Done ==
    /\ pc \in {"returned", "raised", "closed"}
    /\ op' = "none"
    /\ input' = NoInput
    /\ pc' = "idle"
    /\ frame' = None
    /\ emitted' = <<>>
    /\ raised' = NoExc
    /\ wire' = <<>>
    /\ response' = NoResponse
    /\ UNCHANGED <<credentials, now, params, calls>>

Next ==
    \/ Tick
    \/ Verify
    \/ ValidateCredentials
    \/ CallTranslateText
    \/ GenStart
    \/ GenSecond
    \/ GenFinish
    \/ GenClose
    \/ Done

Spec == Init /\ [][Next]_vars

-----------------------------------------------------------------------------
(* The signer on its own: generate_auth_str applied to dicts in every     *)
(* insertion order                                                         *)

\* the key/value pairs the dicts are built from
SignItems ==
    { <<K_to, PyStr(S_zh)>>, <<K_appId, PyStr(S_a1)>>, <<K_appId, PyStr(<<>>)>>,
      <<K_timestamp, PyInt(StartTime)>> }

SignKeys == {it[1] : it \in SignItems}

\* a dict in insertion order: no key twice
ParamLists ==
    {s \in UNION {[1..n -> SignItems] : n \in 0..Cardinality(SignKeys)} :
        \A i, j \in 1..Len(s) : i # j => s[i][1] # s[j][1]}

\* the same items in another insertion order
Reorderings(s) ==
    {t \in [1..Len(s) -> {s[i] : i \in 1..Len(s)}] :
        {t[i] : i \in 1..Len(s)} = {s[i] : i \in 1..Len(s)}}

InitSign ==
    /\ credentials \in CredentialValues
    /\ now = StartTime
    /\ op = "none"
    /\ input = NoInput
    /\ pc = "idle"
    /\ frame = None
    /\ emitted = <<>>
    /\ raised = NoExc
    /\ wire = <<>>
    /\ response = NoResponse
    /\ params \in ParamLists
    /\ calls = <<>>

\* plugin.generate_auth_str(params)
Sign ==
    /\ Len(calls) < MaxSigns
    /\ \E r \in {generate_auth_str(params, credentials.apikey)} :
        /\ calls' = Append(calls, [given |-> params, apikey |-> credentials.apikey,
                                   call |-> r])
        /\ params' = r.params
    /\ UNCHANGED <<credentials, now, op, input, pc, frame, emitted, raised,
                   wire, response>>

\* the caller builds the same dict in another insertion order
Reorder ==
    /\ \E t \in Reorderings(params) :
        /\ t # params
        /\ params' = t
    /\ UNCHANGED <<credentials, now, op, input, pc, frame, emitted, raised,
                   wire, response, calls>>

NextSign ==
    \/ Sign
    \/ Reorder

SignSpec == InitSign /\ [][NextSign]_vars

-----------------------------------------------------------------------------
(* What the properties below read off a state *)

\* the invocation went through a remote exchange that produced an HTTP response
Exchanged == response.kind = "response"

\* the errorCode the response body carries, Absent when it carries none
ErrorCodeOf(resp) ==
    IF resp.body.json = "object" THEN resp.body.fields.errorCode ELSE Absent

ErrorMsgOf(resp) ==
    IF resp.body.json = "object" /\ resp.body.fields.errorMsg # Absent
    THEN resp.body.fields.errorMsg
    ELSE PyStr(<<>>)

ErrorCodeEmpty(resp) == ErrorCodeOf(resp) \in {Absent, PyStr(<<>>)}

\* the body is a JSON object that carries the required field from
WellFormed(resp) ==
    resp.body.json = "object" /\ resp.body.fields.from # Absent

\* the invocation ended, or will end, without an exception
Failed == raised # NoExc
Succeeded == raised = NoExc /\ pc \in {"returned", "yield1", "yield2", "closed"}

IsPrefix(pre, s) == Len(pre) <= Len(s) /\ SubSeq(s, 1, Len(pre)) = pre
IsSuffix(suf, s) ==
    Len(suf) <= Len(s) /\ SubSeq(s, Len(s) - Len(suf) + 1, Len(s)) = suf

\* str(e) of the exception the libraries raise for a failed exchange, read
\* off the response alone; <<>> when the exchange itself raises nothing
LibraryMessage(resp) ==
    IF resp.kind = "transport_error" THEN resp.msg
    ELSE IF resp.status < 200 \/ resp.status > 299
    THEN M_Status \o IntToStr(resp.status)
    ELSE IF resp.body.json = "invalid" THEN M_Json
    ELSE IF resp.body.json = "array" THEN M_Type
    ELSE IF resp.body.fields.from = Absent THEN M_Validation
    ELSE <<>>

\* the response is one the remote reports a business failure in
RemoteReported(resp) ==
    /\ resp.kind = "response"
    /\ LibraryMessage(resp) = <<>>
    /\ ~ErrorCodeEmpty(resp)

-----------------------------------------------------------------------------
(* C1 *)

\* C1 as stated: for verify and translate_text, after an HTTP response of
\* any status whose body is a JSON object, the call succeeds exactly when
\* errorCode is absent or the empty string
C1_SoleSuccessSignal ==
    (op \in {"verify", "translate_text"} /\ Exchanged
        /\ response.body.json = "object")
        => (Succeeded <=> ErrorCodeEmpty(response))

\* C1 amended: a response with a non-empty errorCode always fails the call,
\* whatever the HTTP status; the call succeeds exactly when the status is a
\* success status, the body is a JSON object carrying from, and errorCode is
\* absent or the empty string
C1_ErrorCodeFails ==
    (op \in {"verify", "translate_text"} /\ Exchanged)
        => /\ ~ErrorCodeEmpty(response) => (Failed /\ ~Succeeded)
           /\ Succeeded <=> /\ IsSuccess(response.status)
                            /\ WellFormed(response)
                            /\ ErrorCodeEmpty(response)
           /\ Failed <=> ~Succeeded

\* translate_text got HTTP 200 with errorCode "10001" and raised
C1_Witness ==
    /\ op = "translate_text"
    /\ Exchanged
    /\ response.status = 200
    /\ WellFormed(response)
    /\ ErrorCodeOf(response) = PyStr(S_10001)
    /\ Failed

-----------------------------------------------------------------------------
(* C2 *)

RecordKeys ==
    {"translated_text", "source_language", "target_language", "original_text",
     "error_code", "error_msg"}

\* C2: translate_text yields at most two items, the first the structured
\* record with its six keys, the second the bare translated text, equal to
\* the record's translated_text; a call that runs to its end has yielded
\* exactly these two, in this order
C2_TwoItemsInOrder ==
    op = "translate_text"
        => /\ Len(emitted) <= 2
           /\ Len(emitted) >= 1
                => /\ emitted[1].t = "dict"
                   /\ DOMAIN emitted[1].v = RecordKeys
                   /\ emitted[1].v.original_text = PyStr(input.text)
                   /\ emitted[1].v.target_language = PyStr(input.to_language)
           /\ Len(emitted) = 2
                => /\ emitted[2].t # "dict"
                   /\ emitted[2] = emitted[1].v.translated_text
           /\ pc = "yield1" => Len(emitted) = 1
           /\ pc \in {"yield2", "returned"} => Len(emitted) = 2

\* a translate_text call ran to its end, the translation being U+4F60 U+597D
C2_Witness ==
    /\ op = "translate_text"
    /\ pc = "returned"
    /\ Len(emitted) = 2
    /\ emitted[2] = PyStr(S_nihao)

-----------------------------------------------------------------------------
(* C3 *)

\* C3: a translate_text call that raises has yielded nothing, one that has
\* yielded anything raises nothing, and one that runs to its end has
\* yielded both items; after the exchange it stands at the first yield or
\* has raised
C3_NoPartialSuccess ==
    op = "translate_text"
        => /\ Failed => (emitted = <<>> /\ pc = "raised")
           /\ emitted # <<>> => ~Failed
           /\ pc = "raised" => Failed
           /\ pc = "returned" => (~Failed /\ Len(emitted) = 2)
           /\ response # NoResponse
                => \/ Failed /\ emitted = <<>>
                   \/ ~Failed /\ Len(emitted) >= 1

\* translate_text raised on a well-formed HTTP 200 response that reports
\* errorCode "10001", with nothing yielded
C3_Witness ==
    /\ op = "translate_text"
    /\ RemoteReported(response)
    /\ pc = "raised"
    /\ emitted = <<>>

-----------------------------------------------------------------------------
(* C4 *)

\* C4: when the exchange of translate_text fails (transport, HTTP status,
\* parsing, or a non-empty errorCode) the exception raised has the message
\* "Translation request failed: " followed by the message of the original
\* exception; for a non-empty errorCode that message is
\* "Translation failed: " followed by errorMsg
C4_TranslateWrapped ==
    (op = "translate_text" /\ response # NoResponse /\ Failed)
        => /\ raised.cls = "Exception"
           /\ raised.msg = S_TranslatePrefix \o raised.context.msg
           /\ LibraryMessage(response) # <<>>
                => raised.context.msg = LibraryMessage(response)
           /\ RemoteReported(response)
                => /\ raised.context.msg
                        = S_TranslationFailed \o FormatValue(ErrorMsgOf(response))
                   /\ IsPrefix(S_TranslatePrefix \o S_TranslationFailed, raised.msg)
                   /\ IsSuffix(FormatValue(ErrorMsgOf(response)), raised.msg)

\* translate_text raised for errorCode "10001", errorMsg "invalid appid"
C4_Witness ==
    /\ op = "translate_text"
    /\ RemoteReported(response)
    /\ ErrorMsgOf(response) = PyStr(S_invalid_appid)
    /\ Failed
    /\ IsSuffix(S_invalid_appid, raised.msg)

-----------------------------------------------------------------------------
(* C5 *)

\* what verify's try block raises for a response, read off the response
VerifyCauseMessage(resp) ==
    IF LibraryMessage(resp) # <<>> THEN LibraryMessage(resp)
    ELSE S_ErrorCode \o FormatValue(ErrorCodeOf(resp)) \o S_Message
            \o FormatValue(ErrorMsgOf(resp))

ExchangeFails(resp) == LibraryMessage(resp) # <<>> \/ ~ErrorCodeEmpty(resp)

\* C5: verify raises exactly when its exchange fails, with the message
\* "Credential verification failed: " followed by the cause's message, and
\* returns without a value otherwise; _validate_credentials raises
\* ToolProviderCredentialValidationError exactly when building the
\* credentials or verify fails, with the message of the exception it caught
C5_VerifyWrapped ==
    /\ op = "verify"
        => /\ Failed <=> ExchangeFails(response)
           /\ Failed
                => /\ raised.cls = "Exception"
                   /\ IsPrefix(S_VerifyPrefix, raised.msg)
                   /\ raised.msg = S_VerifyPrefix \o VerifyCauseMessage(response)
                   /\ raised.context.msg = VerifyCauseMessage(response)
           /\ ~Failed => (pc = "returned" /\ emitted = <<>>)
    /\ op = "_validate_credentials"
        => /\ Failed <=> \/ ~CredentialsValid(input)
                         \/ ExchangeFails(response)
           /\ Failed
                => /\ raised.cls = "ToolProviderCredentialValidationError"
                   /\ raised.msg = raised.context.msg
           /\ (Failed /\ CredentialsValid(input))
                => raised.msg = S_VerifyPrefix \o VerifyCauseMessage(response)
           /\ ~Failed => pc = "returned"

\* _validate_credentials raised because verify got HTTP 500
C5_Witness ==
    /\ op = "_validate_credentials"
    /\ Exchanged
    /\ response.status = 500
    /\ Failed
    /\ IsPrefix(S_VerifyPrefix, raised.msg)

-----------------------------------------------------------------------------
(* Reading a canonical string and a posted body back *)

Contains(s, c) == \E i \in 1..Len(s) : s[i] = c
FirstIndex(s, c) == CHOOSE i \in 1..Len(s) : s[i] = c /\ \A j \in 1..(i - 1) : s[j] # c

\* s cut at every occurrence of the character c
RECURSIVE SplitAt(_, _)
SplitAt(s, c) ==
    IF ~Contains(s, c) THEN <<s>>
    ELSE <<SubSeq(s, 1, FirstIndex(s, c) - 1)>>
            \o SplitAt(SubSeq(s, FirstIndex(s, c) + 1, Len(s)), c)

\* the part of a segment before its first "="
KeyOfSegment(seg) == SubSeq(seg, 1, FirstIndex(seg, S_eq[1]) - 1)

\* the value a posted body (or a dict in insertion order) holds for key
ValueOf(body, key) == body[CHOOSE i \in 1..Len(body) : body[i][1] = key][2]

\* what httpx writes for a form value: str(value)
FormValue(body, key) == FormatValue(ValueOf(body, key))

-----------------------------------------------------------------------------
(* C6 *)

\* C6: the string generate_auth_str hashes is made of key=value segments
\* joined by "&", one per pair of the dict plus one for apikey, whose keys
\* are in strictly increasing codepoint order, the key apikey occurring
\* exactly once with the held API key as its value
C6_CanonicalSorted ==
    \A k \in DOMAIN calls :
        LET c == calls[k].call
            segs == SplitAt(c.param_str, S_amp[1])
        IN  /\ c.raised = NoExc
            /\ c.auth_str = Md5Hex(Utf8(c.param_str))
            /\ Len(segs) = Len(calls[k].given) + 1
            /\ \A i \in 1..Len(segs) : Contains(segs[i], S_eq[1])
            /\ \A i \in 1..(Len(segs) - 1) :
                    StrLess(KeyOfSegment(segs[i]), KeyOfSegment(segs[i + 1]))
            /\ Cardinality({i \in 1..Len(segs) : KeyOfSegment(segs[i]) = K_apikey}) = 1
            /\ \E i \in 1..Len(segs) : segs[i] = K_apikey \o S_eq \o calls[k].apikey
            /\ \A j \in 1..Len(calls[k].given) :
                    \E i \in 1..Len(segs) :
                        segs[i] = calls[k].given[j][1] \o S_eq
                                    \o FormatValue(calls[k].given[j][2])

\* a dict of three pairs whose first key is "to" has been signed
C6_Witness ==
    /\ Len(calls) >= 1
    /\ Len(calls[1].given) = 3
    /\ calls[1].given[1][1] = K_to
    /\ calls[1].call.sorted_params[4][1] = K_to

-----------------------------------------------------------------------------
(* C7 *)

SameMap(p, q) == {p[i] : i \in 1..Len(p)} = {q[i] : i \in 1..Len(q)}

\* C7: two generate_auth_str calls on the same key-to-value map under the
\* same API key return the same signature, whatever the insertion orders
\* and whatever was signed in between; a call leaves the dict it is given
\* and the held credentials as they were
C7_OrderIndependent ==
    /\ \A i, j \in DOMAIN calls :
            (SameMap(calls[i].given, calls[j].given)
                /\ calls[i].apikey = calls[j].apikey)
                => calls[i].call.auth_str = calls[j].call.auth_str
    /\ \A k \in DOMAIN calls :
            /\ calls[k].call.params = calls[k].given
            /\ calls[k].call.auth_str.t = "md5hex"
            /\ calls[k].apikey = credentials.apikey

\* the same map of three pairs was signed in two different insertion orders
C7_Witness ==
    /\ Len(calls) = 2
    /\ Len(calls[1].given) = 3
    /\ calls[1].given # calls[2].given
    /\ SameMap(calls[1].given, calls[2].given)
    /\ calls[1].call.auth_str = calls[2].call.auth_str

-----------------------------------------------------------------------------
(* C8 *)

\* C8: once translate_text has yielded its record, an empty from_language
\* shows as source_language "auto" while the from posted, and the from that
\* was hashed for the signature, is the empty string; a non-empty
\* from_language is the record's source_language and the from posted
C8_AutoDisplayOnly ==
    (op = "translate_text" /\ Len(emitted) >= 1)
        => /\ Len(wire) = 1
           /\ ValueOf(wire[1], K_from) = PyStr(input.from_language)
           /\ \E seg \in {SplitAt(ValueOf(wire[1], K_authStr).of, S_amp[1])[i] :
                            i \in 1..Len(SplitAt(ValueOf(wire[1], K_authStr).of, S_amp[1]))} :
                    seg = Utf8(K_from \o S_eq \o input.from_language)
           /\ input.from_language = <<>>
                => emitted[1].v.source_language = PyStr(S_auto)
           /\ input.from_language # <<>>
                => emitted[1].v.source_language = PyStr(input.from_language)

\* translate_text with from_language "" has yielded its record
C8_Witness ==
    /\ op = "translate_text"
    /\ Len(emitted) >= 1
    /\ input.from_language = <<>>
    /\ emitted[1].v.source_language = PyStr(S_auto)
    /\ ValueOf(wire[1], K_from) = PyStr(<<>>)

-----------------------------------------------------------------------------
(* C9 *)

\* the credentials the invocation signs and posts with
SigningCredentials ==
    IF op = "_validate_credentials" THEN NiuTransCredentials(input)
    ELSE credentials

\* C9: no request is posted with an empty app_id or apikey, nor, by
\* translate_text, with an empty target language or text
C9_DefensiveCheck ==
    wire # <<>>
        => /\ SigningCredentials.app_id # <<>>
           /\ SigningCredentials.apikey # <<>>
           /\ op = "translate_text"
                => (input.to_language # <<>> /\ input.text # <<>>)

-----------------------------------------------------------------------------
(* C10 *)

WireKeys == {K_from, K_to, K_srcText, K_appId, K_timestamp, K_authStr}

\* the canonical string of the five fields a body carries, written out
CanonicalOf(body, apikey) ==
    K_apikey \o S_eq \o apikey
      \o S_amp \o K_appId \o S_eq \o FormValue(body, K_appId)
      \o S_amp \o K_from \o S_eq \o FormValue(body, K_from)
      \o S_amp \o K_srcText \o S_eq \o FormValue(body, K_srcText)
      \o S_amp \o K_timestamp \o S_eq \o FormValue(body, K_timestamp)
      \o S_amp \o K_to \o S_eq \o FormValue(body, K_to)

\* C10: every body posted carries exactly the six fields from, to, srcText,
\* appId, timestamp and authStr, and authStr is the digest of the canonical
\* string of the other five as posted, with the held API key; appId is the
\* held app_id; verify posts from "en", to "zh", srcText "testing", and
\* translate_text posts its arguments
C10_SignedAsSent ==
    /\ Len(wire) <= 1
    /\ \A n \in DOMAIN wire :
        /\ Len(wire[n]) = Cardinality(WireKeys)
        /\ {wire[n][i][1] : i \in 1..Len(wire[n])} = WireKeys
        /\ ValueOf(wire[n], K_authStr)
                = Md5Hex(Utf8(CanonicalOf(wire[n], SigningCredentials.apikey)))
        /\ ValueOf(wire[n], K_appId) = PyStr(SigningCredentials.app_id)
        /\ ValueOf(wire[n], K_timestamp).t = "int"
        /\ op \in {"verify", "_validate_credentials"}
                => /\ ValueOf(wire[n], K_from) = PyStr(S_en)
                   /\ ValueOf(wire[n], K_to) = PyStr(S_zh)
                   /\ ValueOf(wire[n], K_srcText) = PyStr(S_testing)
        /\ op = "translate_text"
                => /\ ValueOf(wire[n], K_from) = PyStr(input.from_language)
                   /\ ValueOf(wire[n], K_to) = PyStr(input.to_language)
                   /\ ValueOf(wire[n], K_srcText) = PyStr(input.text)

\* translate_text has posted a body whose srcText holds an "&"
C10_Witness ==
    /\ op = "translate_text"
    /\ Len(wire) = 1
    /\ ValueOf(wire[1], K_srcText) = PyStr(S_amp_text)
    /\ ValueOf(wire[1], K_authStr).t = "md5hex"

====
